---------------------------- MODULE Spec2Model ----------------------------
(***************************************************************************)
(* The pooled expense store of src/server.py: the five tools add_expense,  *)
(* list_expenses, summarize_expenses, delete_expense and update_expense    *)
(* over the table "expenses", behind ensure_user_identity and              *)
(* get_db_connection.                                                      *)
(*                                                                         *)
(* Python strings are sequences of one-character strings, so that          *)
(* str.strip, str.lower, str.isdigit and the comparisons of the SQL        *)
(* statements are computed, not assumed.  A Python value that may be None, *)
(* an int or a str is a record [t, s, n] (see NoneV, IntV, StrV).          *)
(***************************************************************************)
EXTENDS Integers, Sequences, FiniteSets, TLC

VARIABLES
  STARTUP_ERROR,   \* None, or the message captured when pool construction failed
  db_pool,         \* "pool" or "none"
  expenses,        \* the table: a set of rows
  id_seq,          \* last value handed out by the id column's sequence
  last,            \* the last tool call: its arguments and what it returned
  pre,             \* the table as it was before the last tool call
  deleted,         \* ids for which delete_expense has reported success
  issued,          \* ids returned by add_expense, in order
  calls,           \* the tool calls the transport runs side by side, by worker
  used             \* the connections checked out of db_pool

vars ==
  <<STARTUP_ERROR, db_pool, expenses, id_seq, last, pre, deleted, issued, calls,
    used>>

---------------------------------------------------------------------------
(* Bounds *)

\* add_expense is offered while fewer than MaxId ids have been handed out
MaxId == 2

\* the number of calls that run side by side on one row
MaxCalls == 3

---------------------------------------------------------------------------
(* Python values *)

NoneV == [t |-> "none", s |-> <<>>, n |-> 0]
IntV(k) == [t |-> "int", s |-> <<>>, n |-> k]
StrV(str) == [t |-> "str", s |-> str, n |-> 0]

IsNone(v) == v.t = "none"
IsStr(v) == v.t = "str"
IsInt(v) == v.t = "int"

\* Python truthiness of None, an int or a str
Truthy(v) ==
  CASE v.t = "none" -> FALSE
    [] v.t = "int" -> v.n # 0
    [] v.t = "str" -> v.s # <<>>

---------------------------------------------------------------------------
(* Characters and strings *)

SP == " "
SQ == "'"
DQ == "\""

Whitespace == {SP}
Digits == {"0", "1", "2", "6"}

\* the characters the model uses, in code point order
CodePoints ==
  <<" ", "\"", "'", "-", "0", "1", "2", "6", "E", "G", "S", "T", "U",
    "a", "b", "c", "d", "e", "f", "g", "i", "l", "o", "p", "s", "t", "u", "v">>

CharRank(c) == CHOOSE i \in 1..Len(CodePoints) : CodePoints[i] = c

\* str.lower on one character
LowerChar(c) ==
  CASE c = "E" -> "e"
    [] c = "G" -> "g"
    [] c = "S" -> "s"
    [] c = "T" -> "t"
    [] c = "U" -> "u"
    [] OTHER -> c

\* str.lower
Lower(str) == [i \in 1..Len(str) |-> LowerChar(str[i])]

\* str.strip(chars) from the left
RECURSIVE LStrip(_, _)
LStrip(str, chars) ==
  IF str # <<>> /\ Head(str) \in chars THEN LStrip(Tail(str), chars) ELSE str

\* str.strip(chars) from the right
RECURSIVE RStrip(_, _)
RStrip(str, chars) ==
  IF str # <<>> /\ str[Len(str)] \in chars
  THEN RStrip(SubSeq(str, 1, Len(str) - 1), chars)
  ELSE str

\* str.strip(chars)
Strip(str, chars) == RStrip(LStrip(str, chars), chars)

\* str.isdigit
IsDigit(str) == str # <<>> /\ \A i \in 1..Len(str) : str[i] \in Digits

\* s1 < s2 in the order the store compares text
RECURSIVE StrLess(_, _)
StrLess(s1, s2) ==
  IF s2 = <<>> THEN FALSE
  ELSE IF s1 = <<>> THEN TRUE
  ELSE IF Head(s1) = Head(s2) THEN StrLess(Tail(s1), Tail(s2))
  ELSE CharRank(Head(s1)) < CharRank(Head(s2))

StrLeq(s1, s2) == s1 = s2 \/ StrLess(s1, s2)

---------------------------------------------------------------------------
(* Literals *)

guest == <<"g", "u", "e", "s", "t">>
Guest == <<"G", "u", "e", "s", "t">>
GUEST == <<"G", "U", "E", "S", "T">>
alice == <<"a", "l", "i", "c", "e">>
bob == <<"b", "o", "b">>
food == <<"f", "o", "o", "d">>
pet == <<"p", "e", "t">>
vet == <<"v", "e", "t">>
tea == <<"t", "e", "a">>
Y2026 == <<"2", "0", "2", "6">>
D1 == <<"2", "0", "2", "6", "-", "0", "1", "-", "0", "1">>
D2 == <<"2", "0", "2", "6", "-", "0", "1", "-", "0", "2">>

---------------------------------------------------------------------------
(* Outcomes: the string a tool returns, as its kind and the values the     *)
(* message is formatted from                                               *)

Outcome(kind, id, user, val, rows) ==
  [kind |-> kind, id |-> id, user |-> user, val |-> val, rows |-> rows]

\* "IDENTITY_ERROR: I do not know the user's name yet. ..."
IdentityError == Outcome("identity_error", 0, <<>>, NoneV, <<>>)
\* "Database error: DATABASE ERROR: {STARTUP_ERROR}"
DatabaseError == Outcome("database_error", 0, <<>>, STARTUP_ERROR, <<>>)
\* "Expense added successfully. ID: {new_id}"
Added(id) == Outcome("added", id, <<>>, NoneV, <<>>)
\* "No expenses found for user {user_id} ..."
NoExpenses(user) == Outcome("no_expenses", 0, user, NoneV, <<>>)
\* str(rows)
Rows(rows) == Outcome("rows", 0, <<>>, NoneV, rows)
\* "Expense ID {expense_id} not found for user {user_id}."
NotFound(id, user) == Outcome("not_found", id, user, NoneV, <<>>)
\* "Expense ID {expense_id} deleted successfully."
Deleted(id) == Outcome("deleted", id, <<>>, NoneV, <<>>)
\* "Error: Invalid date format '{date}'. Please use YYYY-MM-DD ..."
InvalidDate(d) == Outcome("invalid_date", 0, <<>>, d, <<>>)
\* "No fields provided for update."
NoFields == Outcome("no_fields", 0, <<>>, NoneV, <<>>)
\* "Expense ID {expense_id} updated successfully."
Updated(id) == Outcome("updated", id, <<>>, NoneV, <<>>)

\* what a tool call does: what it returns, the table it leaves, the value of
\* the id sequence it leaves, and whether it took a connection from the pool
Effect(result, table, seq, acquired) ==
  [result |-> result, table |-> table, seq |-> seq, acquired |-> acquired]

---------------------------------------------------------------------------
(* Pool and identity *)

\* get_db_connection that builds the pool anew instead of raising
PoolRebuilt == FALSE

\* get_db_connection raises before getconn
PoolUnavailable == Truthy(STARTUP_ERROR) \/ db_pool = "none"

\* ensure_user_identity without .lower()
ensure_user_identity_exact(user_id) == user_id = <<>> \/ user_id = guest

\* ensure_user_identity(user_id) returns the IDENTITY_ERROR message
ensure_user_identity(user_id) == user_id = <<>> \/ Lower(user_id) = guest

\* the value of a defaulted parameter: NoneV stands for an omitted argument
Default(v, d) == IF IsNone(v) THEN d ELSE v.s

---------------------------------------------------------------------------
(* The table *)

Row(id, user_id, date, amount, category, subcategory, note) ==
  [id |-> id, user_id |-> user_id, date |-> date, amount |-> amount,
   category |-> category, subcategory |-> subcategory, note |-> note]

\* the id the store assigns to the next inserted row
NextId(seq) == seq + 1

\* date BETWEEN %s AND %s
Between(d, lo, hi) == StrLeq(lo, d) /\ StrLeq(d, hi)

\* SUM(amount)
RECURSIVE SumAmount(_)
SumAmount(S) ==
  IF S = {} THEN 0
  ELSE LET r == CHOOSE x \in S : TRUE IN r.amount + SumAmount(S \ {r})

\* the orders in which ORDER BY date ASC may deliver the rows of S
OrderByDate(S) ==
  {q \in [1..Cardinality(S) -> S] :
     /\ \A i, j \in 1..Cardinality(S) : i # j => q[i] # q[j]
     /\ \A i, j \in 1..Cardinality(S) : i < j => StrLeq(q[i].date, q[j].date)}

\* ORDER BY category ASC over the groups G of GROUP BY category
OrderByCategory(G) ==
  CHOOSE q \in [1..Cardinality(G) -> G] :
    \A i, j \in 1..Cardinality(G) : i < j => StrLess(q[i].category, q[j].category)

---------------------------------------------------------------------------
(* The tools *)

add_expense(table, seq, date, amount, category, subcategory, note, user_id) ==
  LET u == Default(user_id, guest) IN
  IF ensure_user_identity(u) THEN Effect(IdentityError, table, seq, FALSE)
  ELSE IF PoolUnavailable THEN Effect(DatabaseError, table, seq, FALSE)
  ELSE LET new_id == NextId(seq)
           row == Row(new_id, u, date.s, amount.n, category.s,
                      Default(subcategory, <<>>), Default(note, <<>>))
       IN Effect(Added(new_id), table \cup {row}, new_id, TRUE)

\* ListWhere without "user_id = %s"
ListWhereAnyUser(table, start_date, end_date, u) ==
  {r \in table : Between(r.date, start_date, end_date)}

\* the rows SELECT * ... WHERE user_id = %s AND date BETWEEN %s AND %s finds
ListWhere(table, start_date, end_date, u) ==
  {r \in table : r.user_id = u /\ Between(r.date, start_date, end_date)}

\* every effect list_expenses may have: one for each order the store may
\* deliver rows of equal date in
list_expenses(table, seq, start_date, end_date, user_id) ==
  LET u == Default(user_id, guest) IN
  IF ensure_user_identity(u) THEN {Effect(IdentityError, table, seq, FALSE)}
  ELSE IF PoolUnavailable THEN {Effect(DatabaseError, table, seq, FALSE)}
  ELSE LET found == ListWhere(table, start_date, end_date, u) IN
       IF found = {} THEN {Effect(NoExpenses(u), table, seq, TRUE)}
       ELSE {Effect(Rows(q), table, seq, TRUE) : q \in OrderByDate(found)}

\* SummarizeWhere without "user_id = %s"
SummarizeWhereAnyUser(table, start_date, end_date, category, u) ==
  {r \in table :
     /\ Between(r.date, start_date, end_date)
     /\ (Truthy(category) => r.category = category.s)}

\* the rows the WHERE clause of summarize_expenses finds
SummarizeWhere(table, start_date, end_date, category, u) ==
  {r \in table :
     /\ r.user_id = u
     /\ Between(r.date, start_date, end_date)
     /\ (Truthy(category) => r.category = category.s)}

summarize_expenses(table, seq, start_date, end_date, category, user_id) ==
  LET u == Default(user_id, guest) IN
  IF ensure_user_identity(u) THEN Effect(IdentityError, table, seq, FALSE)
  ELSE IF PoolUnavailable THEN Effect(DatabaseError, table, seq, FALSE)
  ELSE LET found == SummarizeWhere(table, start_date, end_date, category, u)
           groups == {[category |-> c,
                       total_amount |-> SumAmount({r \in found : r.category = c})] :
                      c \in {r.category : r \in found}}
       IN IF groups = {} THEN Effect(NoExpenses(u), table, seq, TRUE)
          ELSE Effect(Rows(OrderByCategory(groups)), table, seq, TRUE)

\* delete_expense with "WHERE id = %s" only
delete_expense_any_owner(table, seq, expense_id, user_id) ==
  LET u == Default(user_id, guest) IN
  IF ensure_user_identity(u) THEN Effect(IdentityError, table, seq, FALSE)
  ELSE IF PoolUnavailable THEN Effect(DatabaseError, table, seq, FALSE)
  ELSE LET hit == {r \in table : r.id = expense_id} IN
       IF hit = {} THEN Effect(NotFound(expense_id, u), table, seq, TRUE)
       ELSE Effect(Deleted(expense_id), table \ hit, seq, TRUE)

\* delete_expense reporting success for a statement that is never committed
delete_expense_no_commit(table, seq, expense_id, user_id) ==
  LET u == Default(user_id, guest) IN
  IF ensure_user_identity(u) THEN Effect(IdentityError, table, seq, FALSE)
  ELSE IF PoolUnavailable THEN Effect(DatabaseError, table, seq, FALSE)
  ELSE LET hit == {r \in table : r.id = expense_id /\ r.user_id = u} IN
       IF hit = {} THEN Effect(NotFound(expense_id, u), table, seq, TRUE)
       ELSE Effect(Deleted(expense_id), table, seq, TRUE)

\* delete_expense telling a row of another owner from a missing row
delete_expense_tells_owner(table, seq, expense_id, user_id) ==
  LET u == Default(user_id, guest) IN
  IF ensure_user_identity(u) THEN Effect(IdentityError, table, seq, FALSE)
  ELSE IF PoolUnavailable THEN Effect(DatabaseError, table, seq, FALSE)
  ELSE LET hit == {r \in table : r.id = expense_id /\ r.user_id = u} IN
       IF hit = {}
       THEN IF \E r \in table : r.id = expense_id
            THEN Effect(Outcome("forbidden", expense_id, u, NoneV, <<>>),
                        table, seq, TRUE)
            ELSE Effect(NotFound(expense_id, u), table, seq, TRUE)
       ELSE Effect(Deleted(expense_id), table \ hit, seq, TRUE)

delete_expense(table, seq, expense_id, user_id) ==
  LET u == Default(user_id, guest) IN
  IF ensure_user_identity(u) THEN Effect(IdentityError, table, seq, FALSE)
  ELSE IF PoolUnavailable THEN Effect(DatabaseError, table, seq, FALSE)
  ELSE LET hit == {r \in table : r.id = expense_id /\ r.user_id = u} IN
       IF hit = {} THEN Effect(NotFound(expense_id, u), table, seq, TRUE)
       ELSE Effect(Deleted(expense_id), table \ hit, seq, TRUE)

clean_input(value) ==
  IF IsStr(value)
  THEN StrV(Strip(Strip(Strip(value.s, Whitespace), {SQ}), {DQ}))
  ELSE value

\* fields_to_update with "note = %s" appended whether or not note was given
fields_to_update_note_always(date, amount, category, subcategory, note) ==
  (IF Truthy(date) THEN {"date"} ELSE {})
  \cup (IF ~IsNone(amount) THEN {"amount"} ELSE {})
  \cup (IF Truthy(category) THEN {"category"} ELSE {})
  \cup (IF ~IsNone(subcategory) THEN {"subcategory"} ELSE {})
  \cup {"note"}

\* the columns update_expense puts into fields_to_update, given the cleaned
\* arguments
fields_to_update(date, amount, category, subcategory, note) ==
  (IF Truthy(date) THEN {"date"} ELSE {})
  \cup (IF ~IsNone(amount) THEN {"amount"} ELSE {})
  \cup (IF Truthy(category) THEN {"category"} ELSE {})
  \cup (IF ~IsNone(subcategory) THEN {"subcategory"} ELSE {})
  \cup (IF ~IsNone(note) THEN {"note"} ELSE {})

\* SetFields writing all five columns, an omitted one as 0 or ''
SetFieldsAll(r, fields, date, amount, category, subcategory, note) ==
  [r EXCEPT
     !.date = IF "date" \in fields THEN date.s ELSE @,
     !.amount = amount.n,
     !.category = IF "category" \in fields THEN category.s ELSE @,
     !.subcategory = subcategory.s,
     !.note = note.s]

\* UPDATE expenses SET <fields> on one row
SetFields(r, fields, date, amount, category, subcategory, note) ==
  [r EXCEPT
     !.date = IF "date" \in fields THEN date.s ELSE @,
     !.amount = IF "amount" \in fields THEN amount.n ELSE @,
     !.category = IF "category" \in fields THEN category.s ELSE @,
     !.subcategory = IF "subcategory" \in fields THEN subcategory.s ELSE @,
     !.note = IF "note" \in fields THEN note.s ELSE @]

update_expense(table, seq, expense_id, date0, amount, category0, subcategory0, note0, user_id) ==
  LET u == Default(user_id, guest) IN
  IF ensure_user_identity(u) THEN Effect(IdentityError, table, seq, FALSE)
  ELSE
    LET date == clean_input(date0)
        category == clean_input(category0)
        subcategory == clean_input(subcategory0)
        note == clean_input(note0)
    IN
    IF IsInt(date) \/ (IsStr(date) /\ IsDigit(date.s))
    THEN Effect(InvalidDate(date), table, seq, FALSE)
    ELSE IF PoolUnavailable THEN Effect(DatabaseError, table, seq, FALSE)
    ELSE
      LET fields == fields_to_update(date, amount, category, subcategory, note)
          hit == {r \in table : r.id = expense_id /\ r.user_id = u}
      IN
      IF fields = {} THEN Effect(NoFields, table, seq, TRUE)
      ELSE IF hit = {} THEN Effect(NotFound(expense_id, u), table, seq, TRUE)
      ELSE Effect(Updated(expense_id),
                  (table \ hit) \cup
                    {SetFields(r, fields, date, amount, category, subcategory, note) :
                       r \in hit},
                  seq, TRUE)

---------------------------------------------------------------------------
(* Inputs *)

Users == {StrV(alice), StrV(bob)}
\* user_id omitted (the default 'guest'), or given as guest in some case, or
\* empty
Guests == {NoneV, StrV(Guest), StrV(GUEST), StrV(<<>>)}

Ids == 1..MaxId

Ranges == {<<D1, D1>>, <<D1, D2>>, <<D2, D2>>}
CategoryFilters == {NoneV, StrV(<<>>), StrV(food), StrV(pet)}

\* <<user_id, date, amount, category, subcategory, note>>; subcategory and
\* note are both omitted or both given
AddInputs ==
  (Users \X {StrV(D1), StrV(D2)} \X {IntV(5)} \X {StrV(food), StrV(pet)}
     \X {NoneV} \X {NoneV})
  \cup (Users \X {StrV(D1), StrV(D2)} \X {IntV(5)} \X {StrV(food), StrV(pet)}
          \X {StrV(vet)} \X {StrV(tea)})
  \cup (Guests \X {StrV(D1)} \X {IntV(5)} \X {StrV(food)} \X {NoneV} \X {NoneV})

\* <<user_id, start_date, end_date>>
ListInputs ==
  {<<u, r[1], r[2]>> : u \in Users, r \in Ranges}
  \cup {<<u, D1, D2>> : u \in Guests}

\* <<user_id, start_date, end_date, category>>
SummarizeInputs ==
  {<<u, r[1], r[2], c>> : u \in Users, r \in Ranges, c \in CategoryFilters}
  \cup {<<u, D1, D2, NoneV>> : u \in Guests}

\* <<user_id, expense_id>>
DeleteInputs == (Users \cup Guests) \X Ids

QuotedD2 == StrV(<<SP, SQ>> \o D2 \o <<SQ, SP>>)

\* <<user_id, expense_id, date, amount, category, subcategory, note>>
UpdateInputs ==
  {<<u, id, d, r[1], r[2], r[3], r[4]>> :
     u \in Users, id \in Ids, d \in {NoneV, IntV(2026), QuotedD2},
     r \in {<<NoneV, NoneV, NoneV, NoneV>>,
            <<NoneV, StrV(<<>>), NoneV, NoneV>>,
            <<IntV(0), StrV(pet), StrV(<<>>), StrV(<<>>)>>}}
  \cup {<<u, 1, QuotedD2, IntV(0), StrV(pet), StrV(<<>>), StrV(<<>>)>> :
          u \in Guests}

\* the arguments of the field study: every date shape with every pattern of
\* the other four fields, by the owner of both seeded rows
UpdateDates ==
  {NoneV, IntV(2026), StrV(<<>>),
   StrV(<<SQ>> \o Y2026 \o <<SQ>>),
   StrV(<<DQ, SQ>> \o Y2026 \o <<SQ, DQ>>),
   QuotedD2}
\* <<amount, category, subcategory, note>>
UpdateRest ==
  {<<NoneV, NoneV, NoneV, NoneV>>,
   <<IntV(0), NoneV, NoneV, NoneV>>,
   <<NoneV, StrV(<<>>), NoneV, NoneV>>,
   <<NoneV, StrV(<<DQ>> \o pet \o <<DQ>>), NoneV, NoneV>>,
   <<NoneV, NoneV, StrV(<<>>), NoneV>>,
   <<NoneV, NoneV, NoneV, StrV(<<>>)>>,
   <<NoneV, StrV(<<>>), NoneV, StrV(tea)>>,
   <<IntV(7), StrV(food), StrV(vet), StrV(<<SP>>)>>}
FieldInputs ==
  {<<StrV(alice), id, d, r[1], r[2], r[3], r[4]>> :
     id \in Ids, d \in UpdateDates, r \in UpdateRest}

---------------------------------------------------------------------------
(* The record of a call *)

Call(op, user_id, expense_id, date, amount, category, subcategory, note, start_date, end_date, e) ==
  [op |-> op, user_id |-> user_id, expense_id |-> expense_id, date |-> date,
   amount |-> amount, category |-> category, subcategory |-> subcategory,
   note |-> note, start_date |-> start_date, end_date |-> end_date,
   result |-> e.result, acquired |-> e.acquired]

NoCall ==
  Call("none", NoneV, 0, NoneV, NoneV, NoneV, NoneV, NoneV, <<>>, <<>>,
       Effect(Outcome("none", 0, <<>>, NoneV, <<>>), {}, 0, FALSE))

---------------------------------------------------------------------------
(* Initial state: the module has been imported; the pool was built or      *)
(* STARTUP_ERROR was captured; the table holds no rows                     *)

\* "Startup Failed: "
StartupFailed ==
  <<"S", "t", "a", "r", "t", "u", "p", " ", "F", "a", "i", "l", "e", "d", ":", " ">>
\* str(e) of the ValueError raised for a missing or empty DATABASE_URL
MissingUrl ==
  <<"D", "A", "T", "A", "B", "A", "S", "E", "_", "U", "R", "L", " ", "e", "n", "v", "i", "r", "o", "n", "m", "e", "n", "t", " ", "v", "a">>
    \o <<"r", "i", "a", "b", "l", "e", " ", "i", "s", " ", "m", "i", "s", "s", "i", "n", "g", " ", "o", "r", " ", "e", "m", "p", "t", "y", ".">>
\* str(e) of the error ThreadedConnectionPool raises when it cannot connect
CannotConnect == <<"c", "o", "u", "l", "d", " ", "n", "o", "t", " ", "c", "o", "n", "n", "e", "c", "t">>

\* a data source name
Dsn == <<"p", "g", ":", "/", "/", "h", "/", "d", "b">>
\* os.getenv("DATABASE_URL"): unset, empty, nothing but quotes and blanks, or
\* a data source name in quotes
RawUrls == {NoneV, StrV(<<>>), StrV(<<SP, SQ, SQ>>), StrV(<<DQ>> \o Dsn \o <<DQ>>)}

\* the values <<STARTUP_ERROR, db_pool>> that pool construction can leave for
\* DATABASE_URL = raw_url; whether the database accepts a connection is not
\* the program's to decide
PoolConstruction(raw_url) ==
  LET DB_URL == IF Truthy(raw_url)
                THEN Strip(Strip(Strip(raw_url.s, Whitespace), {SQ}), {DQ})
                ELSE <<>>
  IN IF DB_URL = <<>>
     THEN {<<StrV(StartupFailed \o MissingUrl), "none">>}
     ELSE {<<NoneV, "pool">>, <<StrV(StartupFailed \o CannotConnect), "none">>}

Startup ==
  \E raw_url \in RawUrls :
    \E built \in PoolConstruction(raw_url) :
      STARTUP_ERROR = built[1] /\ db_pool = built[2]

Init ==
  /\ Startup
  /\ expenses = {}
  /\ id_seq = 0
  /\ last = NoCall
  /\ pre = {}
  /\ deleted = {}
  /\ issued = <<>>
  /\ calls = <<>>
  /\ used = {}

---------------------------------------------------------------------------
(* Actions: one tool call each, run from its first line to its return; the *)
(* transport then hands the returned string to the caller                  *)

Idle == last.op = "none"

AddExpense ==
  /\ Idle
  /\ id_seq < MaxId
  /\ \E in \in AddInputs :
       LET e == add_expense(expenses, id_seq, in[2], in[3], in[4], in[5],
                            in[6], in[1])
       IN /\ expenses' = e.table
          /\ id_seq' = e.seq
          /\ last' = Call("add", in[1], 0, in[2], in[3], in[4], in[5], in[6],
                          <<>>, <<>>, e)
          /\ issued' = IF e.result.kind = "added"
                       THEN Append(issued, e.result.id) ELSE issued
  /\ pre' = expenses
  /\ UNCHANGED <<calls, used, STARTUP_ERROR, db_pool, deleted>>

ListExpenses ==
  /\ Idle
  /\ \E in \in ListInputs :
       \E e \in list_expenses(expenses, id_seq, in[2], in[3], in[1]) :
          /\ expenses' = e.table
          /\ id_seq' = e.seq
          /\ last' = Call("list", in[1], 0, NoneV, NoneV, NoneV, NoneV, NoneV,
                          in[2], in[3], e)
  /\ pre' = expenses
  /\ UNCHANGED <<calls, used, STARTUP_ERROR, db_pool, deleted, issued>>

SummarizeExpenses ==
  /\ Idle
  /\ \E in \in SummarizeInputs :
       LET e == summarize_expenses(expenses, id_seq, in[2], in[3], in[4], in[1])
       IN /\ expenses' = e.table
          /\ id_seq' = e.seq
          /\ last' = Call("summarize", in[1], 0, NoneV, NoneV, in[4], NoneV,
                          NoneV, in[2], in[3], e)
  /\ pre' = expenses
  /\ UNCHANGED <<calls, used, STARTUP_ERROR, db_pool, deleted, issued>>

DeleteExpense ==
  /\ Idle
  /\ \E in \in DeleteInputs :
       LET e == delete_expense(expenses, id_seq, in[2], in[1])
       IN /\ expenses' = e.table
          /\ id_seq' = e.seq
          /\ last' = Call("delete", in[1], in[2], NoneV, NoneV, NoneV, NoneV,
                          NoneV, <<>>, <<>>, e)
          /\ deleted' = IF e.result.kind = "deleted"
                        THEN deleted \cup {in[2]} ELSE deleted
  /\ pre' = expenses
  /\ UNCHANGED <<calls, used, STARTUP_ERROR, db_pool, issued>>

\* update_expense on one of the argument tuples of inputs
Update(inputs) ==
  /\ Idle
  /\ \E in \in inputs :
       LET e == update_expense(expenses, id_seq, in[2], in[3], in[4], in[5],
                               in[6], in[7], in[1])
       IN /\ expenses' = e.table
          /\ id_seq' = e.seq
          /\ last' = Call("update", in[1], in[2], in[3], in[4], in[5], in[6],
                          in[7], <<>>, <<>>, e)
  /\ pre' = expenses
  /\ UNCHANGED <<calls, used, STARTUP_ERROR, db_pool, deleted, issued>>

UpdateExpense == Update(UpdateInputs)

\* the returned string reaches the caller; the next call may begin
Deliver ==
  /\ ~Idle
  /\ last' = NoCall
  /\ pre' = {}
  /\ UNCHANGED <<calls, used, STARTUP_ERROR, db_pool, expenses, id_seq, deleted, issued>>

Next ==
  \/ AddExpense
  \/ ListExpenses
  \/ SummarizeExpenses
  \/ DeleteExpense
  \/ UpdateExpense
  \/ Deliver

Spec == Init /\ [][Next]_vars

---------------------------------------------------------------------------
(* The field study of update_expense: the table holds two rows alice has   *)
(* added (or none, when the pool could not be built), and alice updates    *)
(* them with every shape of argument                                       *)

SeedTable ==
  {Row(1, alice, D1, 5, food, vet, tea), Row(2, alice, D2, 5, pet, <<>>, <<>>)}

InitFields ==
  /\ Startup
  /\ expenses = IF Truthy(STARTUP_ERROR) THEN {} ELSE SeedTable
  /\ id_seq = Cardinality(expenses)
  /\ last = NoCall
  /\ pre = {}
  /\ deleted = {}
  /\ issued = [i \in 1..Cardinality(expenses) |-> i]
  /\ calls = <<>>
  /\ used = {}

UpdateFields == Update(FieldInputs)

NextFields ==
  \/ UpdateFields
  \/ Deliver

SpecFields == InitFields /\ [][NextFields]_vars

---------------------------------------------------------------------------
(* What the claims speak of *)

\* the last call was made by alice or bob
ByUser == last.user_id \in Users

\* the last call named guest in some letter case, or left user_id out
ByGuest == IsNone(last.user_id) \/ Lower(last.user_id.s) = guest

\* the fields update_expense was given
Supplied ==
  {f \in {"date", "amount", "category", "subcategory", "note"} : ~IsNone(last[f])}

\* the row the last call addressed, as it was before the call, when it
\* belonged to somebody else
ForeignTarget ==
  {r \in pre : r.id = last.expense_id /\ r.user_id # last.user_id.s}

\* s1 <= s2 as dates written YYYY-MM-DD
DateLeq(d1, d2) == StrLeq(d1, d2)

---------------------------------------------------------------------------
(* C1: write isolation *)

\* C1 as stated: delete_expense, or update_expense with at least one field
\* supplied, by a non-guest user on a row owned by another user returns
\* NotFound and leaves the table as it was.
C1_Original ==
  (/\ last.op \in {"delete", "update"}
   /\ ByUser
   /\ ForeignTarget # {}
   /\ last.op = "update" => Supplied # {})
  => (last.result.kind = "not_found" /\ expenses = pre)

\* C1 as amended: such a call never reports success and leaves the table as
\* it was; delete_expense returns NotFound; update_expense returns NotFound
\* unless it is rejected before the statement runs, with the invalid-date
\* error when the cleaned date is an int or all digits, or with "No fields
\* provided" when amount, subcategory and note are omitted and date and
\* category are omitted or empty after cleaning.
C1_WriteIsolation ==
  (/\ last.op \in {"delete", "update"}
   /\ ByUser
   /\ ForeignTarget # {}
   /\ last.op = "update" => Supplied # {})
  => /\ expenses = pre
     /\ last.result.kind \in {"not_found", "invalid_date", "no_fields"}
     /\ last.op = "delete" => last.result.kind = "not_found"
     /\ last.result.kind = "invalid_date" =>
          (IsInt(last.date) \/ (IsStr(last.date) /\ IsDigit(clean_input(last.date).s)))
     /\ last.result.kind = "no_fields" =>
          /\ Supplied \subseteq {"date", "category"}
          /\ \A f \in Supplied : clean_input(last[f]).s = <<>>

\* a non-guest caller has updated, with fields that reach the statement, a
\* row that another user owns
C1_Witness ==
  /\ last.op = "update"
  /\ ByUser
  /\ ForeignTarget # {}
  /\ last.result.kind = "not_found"
  /\ "amount" \in Supplied

---------------------------------------------------------------------------
(* C2: what list_expenses returns *)

\* the stored rows of user u dated within [lo, hi]
OwnInRange(u, lo, hi) ==
  {r \in expenses : r.user_id = u /\ DateLeq(lo, r.date) /\ DateLeq(r.date, hi)}

\* C2: list_expenses(start, end, u), when it reaches the store, returns
\* exactly the stored rows of u dated within [start, end], by ascending date;
\* and the row add_expense has just stored under the id it returned carries
\* the given values (subcategory and note '' when omitted), is in its owner's
\* list over every range containing its date, and in nobody else's.
C2_ListExact ==
  /\ (last.op = "list" /\ ByUser) =>
       LET want == OwnInRange(last.user_id.s, last.start_date, last.end_date)
           got == last.result.rows
       IN /\ last.result.kind = "database_error" <=> PoolUnavailable
          /\ ~PoolUnavailable =>
               IF want = {} THEN last.result.kind = "no_expenses"
               ELSE /\ last.result.kind = "rows"
                    /\ Len(got) = Cardinality(want)
                    /\ {got[i] : i \in 1..Len(got)} = want
                    /\ \A i, j \in 1..Len(got) :
                         i < j => DateLeq(got[i].date, got[j].date)
  /\ (last.op = "add" /\ last.result.kind = "added") =>
       LET mine == {r \in expenses : r.id = last.result.id} IN
       /\ mine = {Row(last.result.id, last.user_id.s, last.date.s, last.amount.n,
                      last.category.s,
                      IF IsNone(last.subcategory) THEN <<>> ELSE last.subcategory.s,
                      IF IsNone(last.note) THEN <<>> ELSE last.note.s)}
       /\ \A range \in Ranges, u \in Users :
            \A e \in list_expenses(expenses, id_seq, range[1], range[2], u) :
               LET listed == e.result.kind = "rows" /\
                             \E i \in 1..Len(e.result.rows) : e.result.rows[i] \in mine
               IN listed <=> (/\ u = last.user_id
                              /\ DateLeq(range[1], last.date.s)
                              /\ DateLeq(last.date.s, range[2]))

\* list_expenses has returned two rows of different dates while the table
\* is not empty of rows outside the answer
C2_Witness ==
  /\ last.op = "list"
  /\ last.result.kind = "rows"
  /\ Len(last.result.rows) = 2
  /\ last.result.rows[1].date # last.result.rows[2].date

---------------------------------------------------------------------------
(* C3: the guest guard *)

\* C3: a call of any of the five tools whose user_id is guest in some letter
\* case, or omitted, returns the IDENTITY_ERROR message, takes no connection
\* and leaves the table as it was; no stored row belongs to guest.
C3_GuestRejected ==
  /\ (last.op # "none" /\ ByGuest) =>
       /\ last.result.kind = "identity_error"
       /\ ~last.acquired
       /\ expenses = pre
  /\ \A r \in expenses : Lower(r.user_id) # guest

\* update_expense was called as GUEST on a stored row, with fields that
\* would have changed it
C3_Witness ==
  /\ last.op = "update"
  /\ last.user_id = StrV(GUEST)
  /\ \E r \in pre : r.id = last.expense_id
  /\ Supplied # {}
  /\ last.result.kind = "identity_error"

---------------------------------------------------------------------------
(* C4: a deleted id does not come back *)

\* C4: no stored row, and so no row list_expenses returns, carries an id
\* whose deletion has been reported; the ids add_expense has returned are
\* pairwise distinct, and none of them had been deleted before.
C4_DeletedStaysDeleted ==
  /\ \A r \in expenses : r.id \notin deleted
  /\ last.op = "list" /\ last.result.kind = "rows" =>
       \A i \in 1..Len(last.result.rows) : last.result.rows[i].id \notin deleted
  /\ \A i, j \in 1..Len(issued) : i # j => issued[i] # issued[j]
  /\ last.op = "add" /\ last.result.kind = "added" =>
       last.result.id \notin deleted

\* add_expense has returned an id after an earlier id was deleted
C4_Witness ==
  /\ last.op = "add"
  /\ last.result.kind = "added"
  /\ deleted # {}
  /\ Len(issued) = 2

---------------------------------------------------------------------------
(* C5: update_expense with no field *)

\* C5 as stated: update_expense by a non-guest user with none of the five
\* fields supplied returns the "No fields provided" error and leaves every
\* row as it was.
C5_Original ==
  (last.op = "update" /\ ByUser /\ Supplied = {})
  => (last.result.kind = "no_fields" /\ expenses = pre)

\* C5 as amended: such a call leaves every row as it was; it returns the "No
\* fields provided" error when the pool was built, and the "Database error"
\* of get_db_connection when it was not, the fields being counted only
\* inside the connection's scope.
C5_NoFieldsRejected ==
  (last.op = "update" /\ ByUser /\ Supplied = {})
  => /\ expenses = pre
     /\ last.result.kind = IF PoolUnavailable THEN "database_error" ELSE "no_fields"

\* update_expense with no field was refused on a row its caller owns
C5_Witness ==
  /\ last.op = "update"
  /\ ByUser
  /\ Supplied = {}
  /\ last.result.kind = "no_fields"
  /\ \E r \in pre : r.id = last.expense_id /\ r.user_id = last.user_id.s

---------------------------------------------------------------------------
(* C6: a bare integer as date *)

\* str with every leading and trailing whitespace and quote character removed
Trimmed(str) == Strip(str, Whitespace \cup {SQ, DQ})

\* the date argument is an int, or a string of digits once trimmed
BareIntegerDate(v) == IsInt(v) \/ (IsStr(v) /\ IsDigit(Trimmed(v.s)))

\* C6: update_expense by a non-guest user with a date that is an int, or a
\* string of digits once surrounding whitespace and quotes are trimmed,
\* returns the invalid-date error and changes no row.
C6_BareIntegerDateRejected ==
  (last.op = "update" /\ ByUser /\ BareIntegerDate(last.date))
  => (last.result.kind = "invalid_date" /\ expenses = pre)

---------------------------------------------------------------------------
(* C7: what a successful update_expense leaves alone *)

\* the value of column f in row r
Column(r, f) ==
  CASE f = "date" -> r.date
    [] f = "amount" -> r.amount
    [] f = "category" -> r.category
    [] f = "subcategory" -> r.subcategory
    [] f = "note" -> r.note

\* C7: after a successful update_expense the table holds the same ids with
\* the same owners, every row but the addressed one is as it was, and every
\* column of the addressed row that was not supplied is as it was.
C7_UpdateFrame ==
  (last.op = "update" /\ last.result.kind = "updated")
  => /\ {<<r.id, r.user_id>> : r \in expenses} = {<<r.id, r.user_id>> : r \in pre}
     /\ Cardinality(expenses) = Cardinality(pre)
     /\ \A r \in pre : r.id # last.expense_id => r \in expenses
     /\ \A old \in pre, new \in expenses :
          (old.id = last.expense_id /\ new.id = last.expense_id) =>
            \A f \in {"date", "amount", "category", "subcategory", "note"} \ Supplied :
               Column(new, f) = Column(old, f)

\* update_expense has changed a row, given some fields and not others, while
\* its caller owns another row
C7_Witness ==
  /\ last.op = "update"
  /\ last.result.kind = "updated"
  /\ Supplied = {"category", "note"}
  /\ expenses # pre
  /\ \E r \in pre : r.id # last.expense_id /\ r.user_id = last.user_id.s

---------------------------------------------------------------------------
(* C8: absent, empty and zero *)

\* the value update_expense is asked to store in column f
Asked(f) == IF f = "amount" THEN last.amount.n ELSE clean_input(last[f]).s

\* C8: in an update_expense that passes the date check and reaches the
\* store, a field supplied as '' or 0 counts as supplied: a call supplying
\* any field is not refused for having none, and a successful call leaves
\* every supplied column holding the supplied value.
C8_EmptyAndZeroCount ==
  (/\ last.op = "update"
   /\ ByUser
   /\ ~PoolUnavailable
   /\ last.result.kind # "invalid_date"
   /\ Supplied # {})
  => /\ last.result.kind # "no_fields"
     /\ last.result.kind = "updated" =>
          \A new \in expenses : new.id = last.expense_id =>
             \A f \in Supplied : Column(new, f) = Asked(f)

---------------------------------------------------------------------------
(* C9: summarize_expenses against list_expenses *)

\* C9: summarize_expenses, when it reaches the store, returns one entry for
\* each category among the rows list_expenses finds for the same user and
\* range (of the filter category only, when a non-empty one is given), by
\* ascending category, each with the sum of those rows' amounts; and the "No
\* expenses found" message when there is no such row.
C9_SummarizeMatchesList ==
  (last.op = "summarize" /\ ByUser)
  => /\ last.result.kind = "database_error" <=> PoolUnavailable
     /\ ~PoolUnavailable =>
          LET listed == ListWhere(expenses, last.start_date, last.end_date,
                                  last.user_id.s)
              kept == IF IsNone(last.category) \/ last.category.s = <<>>
                      THEN listed
                      ELSE {r \in listed : r.category = last.category.s}
              cats == {r.category : r \in kept}
              got == last.result.rows
          IN IF cats = {} THEN last.result.kind = "no_expenses"
             ELSE /\ last.result.kind = "rows"
                  /\ Len(got) = Cardinality(cats)
                  /\ {got[i].category : i \in 1..Len(got)} = cats
                  /\ \A i, j \in 1..Len(got) :
                       i < j => StrLess(got[i].category, got[j].category)
                  /\ \A i \in 1..Len(got) :
                       got[i].total_amount =
                         SumAmount({r \in kept : r.category = got[i].category})

\* summarize_expenses has added up two rows of one category while the other
\* user owns nothing of it
C9_Witness ==
  /\ last.op = "summarize"
  /\ last.result.kind = "rows"
  /\ Len(last.result.rows) = 1
  /\ last.result.rows[1].total_amount = 10

---------------------------------------------------------------------------
(* C10: a missing row and somebody else's row look the same *)

\* what the last delete_expense or update_expense would return on table
Replay(table) ==
  IF last.op = "delete"
  THEN delete_expense(table, id_seq, last.expense_id, last.user_id).result
  ELSE update_expense(table, id_seq, last.expense_id, last.date, last.amount,
                      last.category, last.subcategory, last.note,
                      last.user_id).result

\* C10: what delete_expense or update_expense returns to a non-guest caller
\* for an id that another user owns is what it returns, for the same
\* arguments, on the table without that row; and what it returns for an id
\* that no row has is what it returns on the table with such a row added
\* for another user.
C10_OwnerHidden ==
  (last.op \in {"delete", "update"} /\ ByUser)
  => /\ ForeignTarget # {} => last.result = Replay(pre \ ForeignTarget)
     /\ (\A r \in pre : r.id # last.expense_id) =>
          \A o \in Users \ {last.user_id}, d \in {D1, D2} :
             last.result =
               Replay(pre \cup {Row(last.expense_id, o.s, d, 5, food, <<>>, <<>>)})

\* delete_expense was called on an id that another user owns
C10_Witness ==
  /\ last.op = "delete"
  /\ ByUser
  /\ ForeignTarget # {}
  /\ last.result.kind = "not_found"

---------------------------------------------------------------------------
(* C11: failures are returned in-band under a recognized prefix *)

\* the text a returned string of this kind begins with
MessageHead(kind) ==
  CASE kind = "identity_error" ->
      <<"I", "D", "E", "N", "T", "I", "T", "Y", "_", "E", "R", "R", "O", "R", ":", " ", "I", " ", "d", "o">>
    [] kind = "database_error" ->
      <<"D", "a", "t", "a", "b", "a", "s", "e", " ", "e", "r", "r", "o", "r", ":", " ">>
    [] kind = "invalid_date" ->
      <<"E", "r", "r", "o", "r", ":", " ", "I", "n", "v", "a", "l", "i", "d", " ", "d", "a", "t", "e">>
    [] kind = "added" ->
      <<"E", "x", "p", "e", "n", "s", "e", " ", "a", "d", "d", "e", "d">>
    [] kind = "no_expenses" ->
      <<"N", "o", " ", "e", "x", "p", "e", "n", "s", "e", "s", " ", "f", "o", "u", "n", "d">>
    [] kind = "rows" ->
      <<"[">>
    [] kind = "not_found" ->
      <<"E", "x", "p", "e", "n", "s", "e", " ", "I", "D", " ">>
    [] kind = "deleted" ->
      <<"E", "x", "p", "e", "n", "s", "e", " ", "I", "D", " ">>
    [] kind = "updated" ->
      <<"E", "x", "p", "e", "n", "s", "e", " ", "I", "D", " ">>
    [] kind = "no_fields" ->
      <<"N", "o", " ", "f", "i", "e", "l", "d", "s", " ", "p", "r", "o", "v", "i", "d", "e", "d">>

\* "Database error:", "IDENTITY_ERROR:" and "Error:"
RecognizedPrefixes ==
  {<<"D", "a", "t", "a", "b", "a", "s", "e", " ", "e", "r", "r", "o", "r", ":">>,
   <<"I", "D", "E", "N", "T", "I", "T", "Y", "_", "E", "R", "R", "O", "R", ":">>,
   <<"E", "r", "r", "o", "r", ":">>}

StartsWith(str, p) == Len(str) >= Len(p) /\ SubSeq(str, 1, Len(p)) = p

\* the outcomes that are failures: pool unavailable and store errors,
\* identity unknown, and the two validation errors (a numeric date, an update
\* naming no field)
FailureKinds == {"database_error", "identity_error", "invalid_date", "no_fields"}

\* C11: every tool call that ends in a failure returns a string that begins
\* with "Database error:", "IDENTITY_ERROR:" or "Error:".
C11_FailuresPrefixed ==
  (~Idle /\ last.result.kind \in FailureKinds)
    => \E p \in RecognizedPrefixes : StartsWith(MessageHead(last.result.kind), p)

---------------------------------------------------------------------------
(* C12: a failed pool construction is captured once and replayed *)

\* the last call got past the identity check and the date check, so that it
\* entered get_db_connection
ReachedPool ==
  /\ ~Idle
  /\ last.result.kind \notin {"identity_error", "invalid_date"}

\* C12 as stated: once pool construction has failed, every tool call reports
\* the pool failure with the captured message.
C12_Original ==
  (Truthy(STARTUP_ERROR) /\ ~Idle)
    => last.result = Outcome("database_error", 0, <<>>, STARTUP_ERROR, <<>>)

\* C12, amended: once pool construction has failed, STARTUP_ERROR keeps the
\* captured message and db_pool stays unset through every step; no call takes
\* a connection or changes the table or the id sequence; a call by a guest
\* reports the identity error, update_expense with a numeric date reports the
\* date error, and every other call reports the pool failure with the
\* captured message.
C12_PoolFailureReplayed ==
  [][Truthy(STARTUP_ERROR) =>
       /\ STARTUP_ERROR' = STARTUP_ERROR
       /\ db_pool' = "none"
       /\ expenses' = expenses
       /\ id_seq' = id_seq
       /\ ~last'.acquired
       /\ ByGuest' /\ ~Idle' => last'.result.kind = "identity_error"
       /\ last'.result.kind = "invalid_date" =>
            last'.op = "update" /\ BareIntegerDate(last'.date)
       /\ ReachedPool' =>
            last'.result = Outcome("database_error", 0, <<>>, STARTUP_ERROR, <<>>)]_vars

\* after a failed pool construction alice has called list_expenses and has
\* been given the captured message
C12_Witness ==
  /\ Truthy(STARTUP_ERROR)
  /\ last.op = "list"
  /\ last.user_id = StrV(alice)
  /\ last.result.kind = "database_error"
  /\ last.result.val = STARTUP_ERROR


---------------------------------------------------------------------------
(* Tool calls side by side.  The transport dispatches each call to a       *)
(* worker of its own; a call is a sequence of steps on what the workers    *)
(* share: getconn on db_pool, the statement and the commit on the store,   *)
(* putconn on db_pool.  What a call computes between two such steps is     *)
(* its own and is folded into the step that follows.                       *)

\* maxconn of the ThreadedConnectionPool
maxconn == 5

\* the connections db_pool can hand out
Conns == 1..maxconn

\* "Database error: connection pool exhausted": getconn raises PoolError when
\* maxconn connections are checked out
PoolExhausted ==
  Outcome("database_error", 0, <<>>,
          StrV(<<"c", "o", "n", "n", "e", "c", "t", "i", "o", "n", " ", "p", "o", "o", "l", " ", "e", "x", "h", "a", "u", "s", "t", "e", "d">>), <<>>)
\* "Database error: {e}" for an error the store raises from cur.execute
StoreError ==
  Outcome("database_error", 0, <<>>,
          StrV(<<"c", "o", "n", "n", "e", "c", "t", "i", "o", "n", " ", "l", "o", "s", "t">>), <<>>)

\* a call that has been made and has not returned yet
Ask(op, user_id, expense_id, date, amount, category, subcategory, note, start_date, end_date) ==
  [NoCall EXCEPT !.op = op, !.user_id = user_id, !.expense_id = expense_id,
                 !.date = date, !.amount = amount, !.category = category,
                 !.subcategory = subcategory, !.note = note,
                 !.start_date = start_date, !.end_date = end_date]

\* the call with what it returns
Answer(c, result, acquired) == [c EXCEPT !.result = result, !.acquired = acquired]

\* the rows a transaction has written and not committed yet: the row of
\* that id is replaced by rows (no row, or one)
Change(id, rows) == [id |-> id, rows |-> rows]
NoChange == Change(0, {})

\* a worker: where its call stands, the call, the connection it holds (0 for
\* none) and its uncommitted change
Job(pc, call, conn, change) ==
  [pc |-> pc, call |-> call, conn |-> conn, change |-> change]
NoJob == Job("idle", NoCall, 0, NoChange)

Workers == DOMAIN calls

\* what the tool named by c does when it runs alone on table and seq
Serve(c, table, seq) ==
  CASE c.op = "add" ->
         {add_expense(table, seq, c.date, c.amount, c.category, c.subcategory,
                      c.note, c.user_id)}
    [] c.op = "list" ->
         list_expenses(table, seq, c.start_date, c.end_date, c.user_id)
    [] c.op = "summarize" ->
         {summarize_expenses(table, seq, c.start_date, c.end_date, c.category,
                             c.user_id)}
    [] c.op = "delete" -> {delete_expense(table, seq, c.expense_id, c.user_id)}
    [] c.op = "update" ->
         {update_expense(table, seq, c.expense_id, c.date, c.amount, c.category,
                         c.subcategory, c.note, c.user_id)}

\* db_pool.getconn(): a connection that is not checked out
getconn(pool) == CHOOSE c \in Conns \ pool : \A d \in Conns \ pool : c <= d

\* db_pool.putconn(conn) that does not take conn off the checked-out set
putconn_kept(pool, conn) == pool

\* db_pool.putconn(conn)
putconn(pool, conn) == pool \ {conn}

\* the ids of the rows that transactions other than t's have written and not
\* committed: the store makes a DELETE or UPDATE of such a row wait
Locked(t) == {calls[s].change.id : s \in {w \in Workers \ {t} : calls[w].pc = "executed"}}

\* the call is made: the identity check, then (update_expense) the cleaning
\* and the date check, then get_db_connection up to the yield, then
\* (update_expense) the collection of fields_to_update.  Workers take the
\* calls in the order of their numbers.
Begin(t, requests) ==
  /\ calls[t].pc = "idle"
  /\ \A s \in Workers : s < t => calls[s].pc # "idle"
  /\ \E c \in requests :
       \E e \in Serve(c, expenses, id_seq) :
         IF ~e.acquired
         THEN /\ calls' = [calls EXCEPT ![t] =
                             Job("returned", Answer(c, e.result, FALSE), 0, NoChange)]
              /\ used' = used
         ELSE IF Cardinality(used) = maxconn
         THEN /\ calls' = [calls EXCEPT ![t] =
                             Job("returned", Answer(c, PoolExhausted, FALSE), 0, NoChange)]
              /\ used' = used
         ELSE /\ used' = used \cup {getconn(used)}
              /\ calls' = [calls EXCEPT ![t] =
                             IF e.result.kind = "no_fields"
                             THEN Job("leaving", Answer(c, e.result, TRUE),
                                      getconn(used), NoChange)
                             ELSE Job("connected", c, getconn(used), NoChange)]
  /\ UNCHANGED <<STARTUP_ERROR, db_pool, expenses, id_seq, last, pre, deleted, issued>>

\* cur.execute: the statement runs on the committed rows; what it writes
\* stays with its transaction until the commit; the id of a new row is taken
\* from the sequence at once
Execute(t) ==
  /\ calls[t].pc = "connected"
  /\ LET c == calls[t].call
         target == {r \in expenses : r.id = c.expense_id
                                       /\ r.user_id = Default(c.user_id, guest)}
     IN /\ ~(c.op \in {"delete", "update"} /\ target # {} /\ c.expense_id \in Locked(t))
        /\ \E e \in Serve(c, expenses, id_seq) :
             /\ id_seq' = e.seq
             /\ calls' = [calls EXCEPT ![t] =
                  IF e.result.kind \in {"added", "deleted", "updated"}
                  THEN Job("executed", Answer(c, e.result, TRUE), calls[t].conn,
                           Change(e.result.id,
                                  {r \in e.table : r.id = e.result.id}))
                  ELSE Job("leaving", Answer(c, e.result, TRUE), calls[t].conn,
                           NoChange)]
  /\ UNCHANGED <<STARTUP_ERROR, db_pool, expenses, last, pre, deleted, issued, used>>

\* cur.execute raises: the except clause turns the exception into the
\* returned string
Fail(t) ==
  /\ calls[t].pc = "connected"
  /\ calls' = [calls EXCEPT ![t] =
                 Job("leaving", Answer(calls[t].call, StoreError, TRUE),
                     calls[t].conn, NoChange)]
  /\ UNCHANGED <<STARTUP_ERROR, db_pool, expenses, id_seq, last, pre, deleted, issued, used>>

\* the call goes on without conn.commit(): putconn rolls its writes back
CommitSkipped(t) ==
  /\ calls[t].pc = "executed"
  /\ calls' = [calls EXCEPT ![t].pc = "leaving", ![t].change = NoChange]
  /\ UNCHANGED <<STARTUP_ERROR, db_pool, expenses, id_seq, last, pre, deleted, issued, used>>

\* conn.commit()
Commit(t) ==
  /\ calls[t].pc = "executed"
  /\ expenses' = {r \in expenses : r.id # calls[t].change.id}
                   \cup calls[t].change.rows
  /\ calls' = [calls EXCEPT ![t].pc = "leaving", ![t].change = NoChange]
  /\ UNCHANGED <<STARTUP_ERROR, db_pool, id_seq, last, pre, deleted, issued, used>>

\* the finally clause of get_db_connection, and the return
Release(t) ==
  /\ calls[t].pc = "leaving"
  /\ used' = putconn(used, calls[t].conn)
  /\ calls' = [calls EXCEPT ![t].pc = "returned", ![t].conn = 0]
  /\ UNCHANGED <<STARTUP_ERROR, db_pool, expenses, id_seq, last, pre, deleted, issued>>

\* the table the workers start from: one row of alice
PoolSeed == {Row(1, alice, D1, 5, food, vet, tea)}

InitWorkers(n) ==
  /\ Startup
  /\ expenses = IF Truthy(STARTUP_ERROR) THEN {} ELSE PoolSeed
  /\ id_seq = Cardinality(expenses)
  /\ last = NoCall
  /\ pre = {}
  /\ deleted = {}
  /\ issued = <<>>
  /\ calls = [t \in 1..n |-> NoJob]
  /\ used = {}

---------------------------------------------------------------------------
(* The pool under load: one worker more than the pool has connections,     *)
(* each calling delete_expense on alice's row                              *)

PoolRequests ==
  {Ask("delete", StrV(alice), 1, NoneV, NoneV, NoneV, NoneV, NoneV, <<>>, <<>>)}

InitPool == InitWorkers(maxconn + 1)

BeginPool == \E t \in Workers : Begin(t, PoolRequests)
ExecuteAny == \E t \in Workers : Execute(t)
CommitAny == \E t \in Workers : Commit(t)
ReleaseAny == \E t \in Workers : Release(t)

NextPool ==
  \/ BeginPool
  \/ ExecuteAny
  \/ CommitAny
  \/ ReleaseAny

SpecPool == InitPool /\ [][NextPool]_vars

---------------------------------------------------------------------------
(* Calls on one row side by side: MaxCalls workers, each with one call by  *)
(* alice; the store may fail a statement                                   *)

TxnRequests ==
  {Ask("add", StrV(alice), 0, StrV(D2), IntV(5), StrV(pet), NoneV, NoneV, <<>>, <<>>),
   Ask("list", StrV(alice), 0, NoneV, NoneV, NoneV, NoneV, NoneV, D1, D2),
   Ask("delete", StrV(alice), 1, NoneV, NoneV, NoneV, NoneV, NoneV, <<>>, <<>>),
   Ask("update", StrV(alice), 1, NoneV, IntV(7), StrV(pet), NoneV, NoneV, <<>>, <<>>),
   Ask("update", StrV(alice), 1, NoneV, NoneV, NoneV, NoneV, NoneV, <<>>, <<>>)}

InitTxn == InitWorkers(MaxCalls)

BeginTxn == \E t \in Workers : Begin(t, TxnRequests)
FailAny == \E t \in Workers : Fail(t)

NextTxn ==
  \/ BeginTxn
  \/ ExecuteAny
  \/ FailAny
  \/ CommitAny
  \/ ReleaseAny

SpecTxn == InitTxn /\ [][NextTxn]_vars

---------------------------------------------------------------------------
(* C13: no connection leak *)

\* the calls in flight: between getconn and putconn
Holding == {t \in Workers : calls[t].pc \in {"connected", "executed", "leaving"}}

\* C13: the connections checked out of the pool are exactly the connections
\* of the calls in flight, one each; a call that has returned holds none,
\* whether it ended in success, not found, no fields, or an exception of the
\* store; and none is checked out when no call is in flight.
C13_NoConnectionLeak ==
  /\ used = {calls[t].conn : t \in Holding}
  /\ \A t \in Holding : calls[t].conn \in Conns
  /\ \A s, t \in Holding : s # t => calls[s].conn # calls[t].conn
  /\ \A t \in Workers \ Holding : calls[t].conn = 0
  /\ Cardinality(used) = Cardinality(Holding)
  /\ Holding = {} => used = {}

\* three calls that each took a connection have returned, one with success,
\* one with "No fields provided for update.", one with an error of the store,
\* and no connection is checked out
C13_Witness ==
  /\ \A t \in Workers : calls[t].pc = "returned" /\ calls[t].call.acquired
  /\ \E t \in Workers : calls[t].call.result.kind \in {"deleted", "updated", "added"}
  /\ \E t \in Workers : calls[t].call.result.kind = "no_fields"
  /\ \E t \in Workers : calls[t].call.result = StoreError
  /\ used = {}

---------------------------------------------------------------------------
(* C14: the pool bound under concurrency *)

\* C14: never more than maxconn connections are checked out, and no call
\* fails for want of a connection: a call that finds maxconn connections
\* checked out waits for one and then proceeds.
C14_PoolBoundBlocks ==
  /\ Cardinality(used) <= maxconn
  /\ \A t \in Workers : calls[t].call.result # PoolExhausted

---------------------------------------------------------------------------
(* C15: calls side by side are as calls one after another *)

\* the table and the id sequence the workers started from
TxnStart == IF Truthy(STARTUP_ERROR) THEN {} ELSE PoolSeed

\* the calls that have returned, but for those the store failed
Done ==
  {t \in Workers : calls[t].pc = "returned" /\ calls[t].call.result # StoreError}

\* no call is in flight
Quiescent == Holding = {}

\* the orders in which the calls of S can be run one after another
Orders(S) ==
  {f \in [1..Cardinality(S) -> S] :
     \A i, j \in 1..Cardinality(S) : i # j => f[i] # f[j]}

\* the calls order[i], order[i+1], ..., order[n] run one after another from
\* table and seq return what they have returned and leave the table as it is
RECURSIVE SerialRun(_, _, _, _, _)
SerialRun(order, i, n, table, seq) ==
  IF i > n THEN table = expenses
  ELSE \E e \in Serve(calls[order[i]].call, table, seq) :
         /\ e.result = calls[order[i]].call.result
         /\ SerialRun(order, i + 1, n, e.table, e.seq)

\* the same, when each add_expense is given the id it has returned
RECURSIVE SerialRunIds(_, _, _, _, _)
SerialRunIds(order, i, n, table, seq) ==
  IF i > n THEN table = expenses
  ELSE LET c == calls[order[i]].call
           at == IF c.result.kind = "added" THEN c.result.id - 1 ELSE seq
       IN \E e \in Serve(c, table, at) :
            /\ e.result = c.result
            /\ SerialRunIds(order, i + 1, n, e.table, e.seq)

\* C15 as stated: when no call is in flight, the results returned and the
\* table are those of the same calls run one after another in some order.
C15_Original ==
  Quiescent =>
    \E order \in Orders(Done) :
      SerialRun(order, 1, Cardinality(Done), TxnStart, Cardinality(TxnStart))

\* the row of alice as update_expense(1, amount=7, category='pet') leaves it
UpdatedSeed == {[r EXCEPT !.amount = 7, !.category = pet] : r \in PoolSeed}

\* C15, amended: when no call is in flight, the results returned and the
\* table are those of the same calls run one after another in some order,
\* but for the ids add_expense returns, which follow the order of the INSERT
\* statements and not the order of the commits; a call the store failed has
\* changed nothing.  At every moment at most one delete_expense of a row has
\* reported or is about to report success, a row reported deleted is not in
\* the table, and the row is as it was added or as update_expense sets it,
\* never in part.
C15_SerialUpToIds ==
  /\ Quiescent =>
       \E order \in Orders(Done) :
         SerialRunIds(order, 1, Cardinality(Done), TxnStart, Cardinality(TxnStart))
  /\ Cardinality({t \in Workers : calls[t].call.result.kind = "deleted"}) <= 1
  /\ \A t \in Workers :
       (calls[t].pc = "returned" /\ calls[t].call.result.kind = "deleted")
         => \A r \in expenses : r.id # calls[t].call.expense_id
  /\ \A r \in expenses : r.id = 1 => r \in PoolSeed \cup UpdatedSeed

\* three calls on alice's row have returned: update_expense with success,
\* one delete_expense with success, the other with not found
C15_Witness ==
  /\ Quiescent
  /\ \E s, t, u \in Workers :
       /\ s # t
       /\ calls[s].pc = "returned" /\ calls[s].call.op = "delete"
       /\ calls[s].call.result.kind = "deleted"
       /\ calls[t].pc = "returned" /\ calls[t].call.op = "delete"
       /\ calls[t].call.result.kind = "not_found"
       /\ calls[u].pc = "returned" /\ calls[u].call.result.kind = "updated"


---------------------------------------------------------------------------
(* The SQLite variant, src/servers/local-expense-tracker-with-localdb.py:  *)
(* every tool opens a connection of its own with sqlite3.connect; leaving  *)
(* the with block commits when the body returned and rolls back when it    *)
(* raised.  There is no user_id and no pool.                               *)

\* a row of the table EXPENSES
LocalRow(id, date, amount, category, subcategory, note) ==
  [id |-> id, date |-> date, amount |-> amount, category |-> category,
   subcategory |-> subcategory, note |-> note]

\* {'status': 'ok', 'id': cursor.lastrowid} and {'status': 'ok', 'message': ...}
LocalOk(id) == Outcome("ok", id, <<>>, NoneV, <<>>)
\* {'status': 'error', 'message': ...}
LocalError(id) == Outcome("error", id, <<>>, NoneV, <<>>)
\* the tool raises: the call ends in an error of the transport
Raised(exc) == Outcome("raised", 0, <<>>, StrV(exc), <<>>)

\* "await conn.commit()": commit() has run and returned None, which cannot
\* be awaited
TypeError == <<"T", "y", "p", "e", "E", "r", "r", "o", "r">>
\* a NOT NULL column is given None
IntegrityError == <<"I", "n", "t", "e", "g", "r", "i", "t", "y", "E", "r", "r", "o", "r">>
\* conn.description: a sqlite3.Connection has no such attribute
AttributeError == <<"A", "t", "t", "r", "i", "b", "u", "t", "e", "E", "r", "r", "o", "r">>

\* add_expense: the INSERT, then conn.commit(), then the await of its result
sqlite_add_expense(table, seq, date, amount, category, subcategory, note) ==
  IF IsNone(date) \/ IsNone(amount) \/ IsNone(category)
  THEN Effect(Raised(IntegrityError), table, seq, FALSE)
  ELSE Effect(Raised(TypeError),
              table \cup {LocalRow(seq + 1, date.s, amount.n, category.s,
                                   Default(subcategory, <<>>), Default(note, <<>>))},
              seq + 1, FALSE)

\* list_expenses: the rows in range, in an order the statement leaves open
sqlite_list_expenses(table, seq, start_date, end_date) ==
  {Effect(Rows(rows), table, seq, FALSE) :
     rows \in Orders({r \in table : Between(r.date, start_date, end_date)})}

\* summarize_expenses: the statement runs, then conn.description raises
sqlite_summarize_expenses(table, seq, start_date, end_date, category) ==
  Effect(Raised(AttributeError), table, seq, FALSE)

\* delete_expense: the with block commits on the way out
sqlite_delete_expense(table, seq, id) ==
  IF {r \in table : r.id = id} = {}
  THEN Effect(LocalError(id), table, seq, FALSE)
  ELSE Effect(LocalOk(id), {r \in table : r.id # id}, seq, FALSE)

\* update_expense: "await conn.commit()" stands before the test for no
\* fields and before the UPDATE
sqlite_update_expense(table, seq, id, date, amount, category, subcategory, note) ==
  Effect(Raised(TypeError), table, seq, FALSE)

\* <<date, amount, category, subcategory, note>>
LocalAddInputs ==
  ({StrV(D1), StrV(D2)} \X {IntV(5)} \X {StrV(food), StrV(pet)} \X {NoneV, StrV(vet)}
     \X {NoneV})
  \cup {<<StrV(D1), IntV(5), NoneV, NoneV, NoneV>>}

\* <<id, date, amount, category, subcategory, note>>
LocalUpdateInputs ==
  {<<id, NoneV, r[1], r[2], NoneV, r[3]>> :
     id \in Ids,
     r \in {<<NoneV, NoneV, NoneV>>, <<IntV(7), NoneV, NoneV>>,
            <<IntV(7), StrV(pet), StrV(tea)>>}}

InitLocal ==
  /\ STARTUP_ERROR = NoneV
  /\ db_pool = "none"
  /\ expenses = {}
  /\ id_seq = 0
  /\ last = NoCall
  /\ pre = {}
  /\ deleted = {}
  /\ issued = <<>>
  /\ calls = <<>>
  /\ used = {}

\* one tool call of the SQLite variant, from its first line to its end
LocalCall(op, expense_id, date, amount, category, subcategory, note, start_date, end_date, e) ==
  /\ expenses' = e.table
  /\ id_seq' = e.seq
  /\ last' = Call(op, NoneV, expense_id, date, amount, category, subcategory,
                  note, start_date, end_date, e)
  /\ pre' = expenses
  /\ UNCHANGED <<calls, used, STARTUP_ERROR, db_pool, deleted, issued>>

LocalAdd ==
  /\ Idle
  /\ id_seq < MaxId
  /\ \E in \in LocalAddInputs :
       LocalCall("add", 0, in[1], in[2], in[3], in[4], in[5], <<>>, <<>>,
                 sqlite_add_expense(expenses, id_seq, in[1], in[2], in[3], in[4], in[5]))

LocalList ==
  /\ Idle
  /\ \E range \in Ranges :
       \E e \in sqlite_list_expenses(expenses, id_seq, range[1], range[2]) :
         LocalCall("list", 0, NoneV, NoneV, NoneV, NoneV, NoneV, range[1], range[2], e)

LocalSummarize ==
  /\ Idle
  /\ \E range \in Ranges :
       LocalCall("summarize", 0, NoneV, NoneV, NoneV, NoneV, NoneV, range[1], range[2],
                 sqlite_summarize_expenses(expenses, id_seq, range[1], range[2], NoneV))

LocalDelete ==
  /\ Idle
  /\ \E id \in Ids :
       LocalCall("delete", id, NoneV, NoneV, NoneV, NoneV, NoneV, <<>>, <<>>,
                 sqlite_delete_expense(expenses, id_seq, id))

LocalUpdate ==
  /\ Idle
  /\ \E in \in LocalUpdateInputs :
       LocalCall("update", in[1], in[2], in[3], in[4], in[5], in[6], <<>>, <<>>,
                 sqlite_update_expense(expenses, id_seq, in[1], in[2], in[3], in[4],
                                       in[5], in[6]))

NextLocal ==
  \/ LocalAdd
  \/ LocalList
  \/ LocalSummarize
  \/ LocalDelete
  \/ LocalUpdate
  \/ Deliver

SpecLocal == InitLocal /\ [][NextLocal]_vars

---------------------------------------------------------------------------
(* C16: the SQLite variant reports what it has persisted *)

\* the row the last call addressed, as it was before the call
LocalTarget == {r \in pre : r.id = last.expense_id}

\* C16: add_expense given a date, an amount and a category inserts exactly
\* one row and returns status ok with the id of that row; update_expense with a field supplied on an existing id
\* changes the row as asked and returns status ok; a call that ends in a
\* failure has changed nothing, and a call that reports success has changed
\* the table as it says.
C16_LocalWritesReported ==
  /\ (last.op = "add" /\ {"date", "amount", "category"} \subseteq Supplied) =>
       /\ last.result.kind = "ok"
       /\ \E r \in expenses \ pre : r.id = last.result.id /\ expenses = pre \cup {r}
  /\ (last.op = "update" /\ Supplied # {} /\ LocalTarget # {}) =>
       /\ last.result.kind = "ok"
       /\ \E r \in expenses : /\ r.id = last.expense_id
                              /\ \A f \in Supplied \ {"amount"} : r[f] = last[f].s
                              /\ "amount" \in Supplied => r.amount = last.amount.n
  /\ (~Idle /\ last.result.kind \in {"error", "raised"}) => expenses = pre
  /\ (last.op = "delete" /\ last.result.kind = "ok") =>
       expenses = pre \ LocalTarget /\ LocalTarget # {}

=============================================================================
